---- MODULE Spec2Model ----
(***************************************************************************)
(* Model of the authenticated-call protocol of the antchain client:        *)
(* client.shakehand, client.chainCall, client.chainCallForBiz, client.do   *)
(* (src/unnamed/part_000), the option injector WithParam and the endpoint  *)
(* constants of src/util.go.                                               *)
(*                                                                         *)
(* Every caller goroutine is a process p.  The locals of a call (token,    *)
(* params, err, the context) are the p-th components of the variables.     *)
(* The HTTP executor, the remote service, the wall clock, the RSA signer's *)
(* failures and uuid.New are the environment.                              *)
(***************************************************************************)
EXTENDS Integers, Sequences, FiniteSets, TLC

----------------------------------------------------------------------------
(* Bounds of the model *)

\* invocations in one behaviour of the sequential specification
MaxCalls == 2
\* invocations in one behaviour of the concurrent specification
MaxCallsConc == 2
\* invocations in one behaviour of the fair specification
MaxCallsFair == 1
\* invocations in one behaviour of the specification with SetHTTPClient
MaxCallsSet == 1
\* calls of SetHTTPClient
MaxSets == 1
\* calls of the caller whose options set protocol keys
MaxCallsOpts == 1
\* options of one such call
MaxOptsProto == 2
\* options passed to one invocation of the sequential specification
MaxOpts == 2
\* wall clock readings, in milliseconds
MaxTime == 2

\* caller goroutines
Procs == {"p1", "p2"}

----------------------------------------------------------------------------
(* Constants of the program *)

CHAIN_CALL_FOR_BIZ == "/api/contract/chainCallForBiz"
CHAIN_CALL == "/api/contract/chainCall"
SHAKE_HAND == "/api/contract/shakeHand"

\* the two call shapes of the client
Kinds == {"chainCall", "chainCallForBiz"}

\* remote method names handed to chainCall / chainCallForBiz by the facade
Methods == {"DEPOSIT", "QUERYTRANSACTION"}

\* a Go value json.Marshal rejects (UnsupportedTypeError)
Chan == "make(chan int)"

\* WithParam(key, value): one option is the pair <<key, value>>
Options == {<<"gas", "v1">>, <<"gas", "v2">>, <<"gas", Chan>>, <<"orderId", "v1">>}

RECURSIVE SeqsUpTo(_, _)
SeqsUpTo(S, n) ==
  IF n = 0 THEN {<<>>}
  ELSE LET shorter == SeqsUpTo(S, n - 1)
       IN shorter \cup {Append(s, x) : s \in {q \in shorter : Len(q) = n - 1}, x \in S}

OptionLists == SeqsUpTo(Options, MaxOpts)

\* the option lists of the concurrent and of the fair specification
OptionListsConc == {<<>>, <<(<<"gas", "v1">>)>>, <<(<<"orderId", "v1">>)>>}

Times == 1..MaxTime

\* Config values a client can be constructed with; the second endpoint is
\* one url.Parse rejects
Endpoints == {"https://rest.baas.alipay.com", ":"}

Configs ==
  {[BizID |-> "a00e36c5", Endpoint |-> e, TenantID |-> "tenant",
    AccessID |-> "access", Account |-> "account", MyKmsKeyID |-> "kms"] : e \in Endpoints}

----------------------------------------------------------------------------
(* Errors: a Go error value is a record; msg holds the pieces the message  *)
(* is formatted from, in order                                             *)

Nil == [kind |-> "nil", msg |-> <<>>]
SignErr == [kind |-> "sign", msg |-> <<"crypto/rsa: message too long for RSA key size">>]
MarshalErr == [kind |-> "marshal", msg |-> <<"json: unsupported type: chan int">>]
NewRequestErr == [kind |-> "newrequest", msg |-> <<"parse: missing protocol scheme">>]
TransportErr == [kind |-> "transport", msg |-> <<"Post: connection reset by peer">>]
ReadErr == [kind |-> "read", msg |-> <<"unexpected EOF">>]
CtxErr == [kind |-> "ctx", msg |-> <<"context canceled">>]

\* a (string, error) pair returned by shakehand, chainCall, chainCallForBiz, do
Ret(payload, err) == [payload |-> payload, err |-> err]

----------------------------------------------------------------------------
(* JSON values of a response body and gjson's projections of them *)

Absent == [t |-> "absent", str |-> "", num |-> 0]
JNull == [t |-> "null", str |-> "", num |-> 0]
JTrue == [t |-> "true", str |-> "", num |-> 0]
JFalse == [t |-> "false", str |-> "", num |-> 0]
JStr(s) == [t |-> "string", str |-> s, num |-> 0]
JNum(n) == [t |-> "number", str |-> "", num |-> n]

\* strconv.ParseBool(strings.ToLower(s)) accepts these spellings of true
ParseBoolTrue == {"1", "t", "true"}

\* gjson Result.Bool
gjsonBool(v) ==
  CASE v.t = "true" -> TRUE
    [] v.t = "string" -> v.str \in ParseBoolTrue
    [] v.t = "number" -> v.num # 0
    [] OTHER -> FALSE

\* gjson Result.String
gjsonString(v) ==
  CASE v.t = "string" -> v.str
    [] v.t = "number" -> ToString(v.num)
    [] v.t = "true" -> "true"
    [] v.t = "false" -> "false"
    [] OTHER -> ""

\* response bodies the service can answer a business request with
SuccessVals == {JTrue, JFalse, Absent}
CodeVals == {JStr("E1"), Absent}
DataVals == {JStr("deadbeef"), JStr("boom"), JNum(7), Absent}

\* a body that is a JSON document: what ret.Get finds under success, code and
\* data in it
Body(s, c, d) == [success |-> s, code |-> c, data |-> d, valid |-> TRUE]

\* a body that is no JSON document.  gjson.ParseBytes does not validate: it
\* scans from the first brace, and ret.Get hands back every field the scan
\* comes across before the text breaks off
Malformed(s, c, d) == [success |-> s, code |-> c, data |-> d, valid |-> FALSE]

\* malformed bodies a round trip can end with: an envelope cut short after its
\* data field, as in {"success":true,"data":"..." without the closing brace,
\* and a text with no field in it, as in <html>502</html>
MalformedBodies(data) == {Malformed(JTrue, Absent, JStr(data)), Malformed(Absent, Absent, Absent)}

Bodies ==
  {Body(s, c, d) : s \in SuccessVals, c \in CodeVals, d \in DataVals}
    \cup MalformedBodies("deadbeef")

\* the token the service issues in its n-th handshake answer
Tok(n) == "tok" \o ToString(n)

\* response bodies the service can answer the n-th handshake with: a failure,
\* a success that carries the token, or a malformed body
HsBodies(n) ==
  {Body(s, c, d) : s \in {JFalse, Absent}, c \in CodeVals, d \in {JStr("boom"), Absent}}
    \cup {Body(JTrue, c, JStr(Tok(n))) : c \in CodeVals}
    \cup MalformedBodies(Tok(n))

\* the bodies the service answers with in the concurrent specification
BodiesConc == {Body(JTrue, Absent, JStr("deadbeef")), Body(JFalse, JStr("E1"), JStr("boom"))}
HsBodiesConc(n) == {Body(JTrue, Absent, JStr(Tok(n))), Body(JFalse, JStr("E1"), JStr("boom"))}

\* uuid.New().String(): the n-th identifier drawn from the random source
Uuid(n) == "uuid-" \o ToString(n)

----------------------------------------------------------------------------
(* Parameter mappings (type X) and the option injector *)

\* params[key] = value on a map[string]interface{}
SetKey(params, key, value) ==
  [k \in (DOMAIN params) \cup {key} |-> IF k = key THEN value ELSE params[k]]

\* a mutation of WithParam: a key that is already present keeps its value
WithParamKeepFirst(params, opt) ==
  IF opt[1] \in DOMAIN params THEN params ELSE SetKey(params, opt[1], opt[2])

\* the closure WithParam(key, value) returns, applied to params
WithParam(params, opt) == SetKey(params, opt[1], opt[2])

\* make(X)
EmptyX == [k \in {} |-> ""]

\* for _, f := range options { f(params) }
RECURSIVE ApplyOptions(_, _)
ApplyOptions(params, options) ==
  IF options = <<>> THEN params
  ELSE ApplyOptions(WithParam(params, Head(options)), Tail(options))

\* strconv.FormatInt(ms, 10)
FormatInt(ms) == ToString(ms)

\* hex.EncodeToString
Hex(bytes) == "hex(" \o bytes \o ")"

\* a mutation of Sign: the error of rsa.SignPKCS1v15 is dropped and the empty
\* signature is handed back
SignDropsError(data, rsaFails) ==
  IF rsaFails THEN [sig |-> "", err |-> Nil]
  ELSE [sig |-> "rsa-sha256(" \o data \o ")", err |-> Nil]

\* PrivateKey.Sign(crypto.SHA256, data): SHA-256 is linked into the binary
\* (crypto/sha256 is imported), rsa.SignPKCS1v15 fails when rsaFails
Sign(data, rsaFails) ==
  IF rsaFails THEN [sig |-> "", err |-> SignErr]
  ELSE [sig |-> "rsa-sha256(" \o data \o ")", err |-> Nil]

\* a mutation of shakehandParams: the time is sent in microseconds while the
\* signature is over the milliseconds
shakehandParamsMicros(accessId, timeStr, sign) ==
  [k \in {"accessId", "time", "secret"} |->
     IF k = "accessId" THEN accessId
     ELSE IF k = "time" THEN timeStr \o "000"
     ELSE Hex(sign)]

\* the parameter mapping of the handshake request
shakehandParams(accessId, timeStr, sign) ==
  [k \in {"accessId", "time", "secret"} |->
     CASE k = "accessId" -> accessId
       [] k = "time" -> timeStr
       [] OTHER -> Hex(sign)]

\* a mutation of chainCallParams: the options run after the protocol fields
\* have been set
chainCallParamsOptionsLast(c, method, options, tok) ==
  LET p1 == SetKey(EmptyX, "bizid", c.BizID)
      p2 == SetKey(p1, "accessId", c.AccessID)
      p3 == SetKey(p2, "method", method)
      p4 == SetKey(p3, "token", tok)
  IN ApplyOptions(p4, options)

\* the parameter mapping of the chainCall request
chainCallParams(c, method, options, tok) ==
  LET p0 == ApplyOptions(EmptyX, options)
      p1 == SetKey(p0, "bizid", c.BizID)
      p2 == SetKey(p1, "accessId", c.AccessID)
      p3 == SetKey(p2, "method", method)
  IN SetKey(p3, "token", tok)

\* a mutation of chainCallForBizParams: orderId is set before the options run
chainCallForBizParamsOrderFirst(c, method, options, tok, orderId) ==
  LET p0 == ApplyOptions(SetKey(EmptyX, "orderId", orderId), options)
      p2 == SetKey(p0, "bizid", c.BizID)
      p3 == SetKey(p2, "account", c.Account)
      p4 == SetKey(p3, "mykmsKeyId", c.MyKmsKeyID)
      p5 == SetKey(p4, "method", method)
      p6 == SetKey(p5, "accessId", c.AccessID)
      p7 == SetKey(p6, "tenantid", c.TenantID)
  IN SetKey(p7, "token", tok)

\* a mutation of chainCallForBizParams: the access id of the request is taken
\* from the account field of the configuration
chainCallForBizParamsMixup(c, method, options, tok, orderId) ==
  LET p0 == ApplyOptions(EmptyX, options)
      p1 == SetKey(p0, "orderId", orderId)
      p2 == SetKey(p1, "bizid", c.BizID)
      p3 == SetKey(p2, "account", c.Account)
      p4 == SetKey(p3, "mykmsKeyId", c.MyKmsKeyID)
      p5 == SetKey(p4, "method", method)
      p6 == SetKey(p5, "accessId", c.Account)
      p7 == SetKey(p6, "tenantid", c.TenantID)
  IN SetKey(p7, "token", tok)

\* the parameter mapping of the chainCallForBiz request
chainCallForBizParams(c, method, options, tok, orderId) ==
  LET p0 == ApplyOptions(EmptyX, options)
      p1 == SetKey(p0, "orderId", orderId)
      p2 == SetKey(p1, "bizid", c.BizID)
      p3 == SetKey(p2, "account", c.Account)
      p4 == SetKey(p3, "mykmsKeyId", c.MyKmsKeyID)
      p5 == SetKey(p4, "method", method)
      p6 == SetKey(p5, "accessId", c.AccessID)
      p7 == SetKey(p6, "tenantid", c.TenantID)
  IN SetKey(p7, "token", tok)

\* a mutation of bizURL: both call kinds post to the chainCall endpoint
bizURLSame(c, kind) == c.Endpoint \o CHAIN_CALL

\* the URL the business request of a call kind is posted to
bizURL(c, kind) ==
  IF kind = "chainCall" THEN c.Endpoint \o CHAIN_CALL ELSE c.Endpoint \o CHAIN_CALL_FOR_BIZ

----------------------------------------------------------------------------
(* client.do, piece by piece *)

\* json.Marshal(params) succeeds
Marshalable(params) == \A k \in DOMAIN params : params[k] # Chan

\* url.Parse inside http.NewRequestWithContext succeeds
ValidURL(url, c) == c.Endpoint # ":"

\* the error do returns before anything is sent, Nil when the request goes out
doPrepare(url, params, c) ==
  IF ~Marshalable(params) THEN MarshalErr
  ELSE IF ~ValidURL(url, c) THEN NewRequestErr
  ELSE Nil

\* the error do returns when c.cli.Do failed with err
doRoundTripErr(done, err) == IF done THEN CtxErr ELSE err

\* fmt.Errorf("antchain: %s | %s", code, data)
RemoteErr(code, data) == [kind |-> "remote", msg |-> <<"antchain: ", code, " | ", data>>]

\* a mutation of doDecode: the error message leaves the data out
doDecodeNoData(b) ==
  IF ~gjsonBool(b.success)
  THEN Ret("", [kind |-> "remote", msg |-> <<"antchain: ", gjsonString(b.code)>>])
  ELSE Ret(gjsonString(b.data), Nil)

\* a mutation of doDecode: the success flag is not looked at
doDecodeNoCheck(b) == Ret(gjsonString(b.data), Nil)

\* a mutation of doDecode: a failure hands the data back with the error
doDecodePartial(b) ==
  IF ~gjsonBool(b.success)
  THEN Ret(gjsonString(b.data), RemoteErr(gjsonString(b.code), gjsonString(b.data)))
  ELSE Ret(gjsonString(b.data), Nil)

\* a mutation of doDecode: the payload is the code field
doDecodeCode(b) ==
  IF ~gjsonBool(b.success)
  THEN Ret("", RemoteErr(gjsonString(b.code), gjsonString(b.data)))
  ELSE Ret(gjsonString(b.code), Nil)

\* what do returns for a response body b that was read in full
doDecode(b) ==
  IF ~gjsonBool(b.success)
  THEN Ret("", RemoteErr(gjsonString(b.code), gjsonString(b.data)))
  ELSE Ret(gjsonString(b.data), Nil)

\* a mutation of shakehandFailed: the handshake's error is ignored
shakehandFailedIgnored(r) == FALSE

\* if err != nil after token, err := c.shakehand(ctx)
shakehandFailed(r) == r.err # Nil

----------------------------------------------------------------------------
(* Loading the signer's key *)

\* the PEM block types the switch of the loader knows
RSAPKCS1 == "RSA PRIVATE KEY"
RSAPKCS8 == "PRIVATE KEY"

\* block types a PEM text can announce
PemTypes == {RSAPKCS1, RSAPKCS8, "EC PRIVATE KEY", "CERTIFICATE"}

\* what the bytes of a block can be: a PKCS#1 RSA key, a PKCS#8 envelope
\* around an RSA or an ECDSA key, a SEC 1 EC key, or no key at all
Ders == {"pkcs1-rsa", "pkcs8-rsa", "pkcs8-ecdsa", "sec1-ec", "garbage"}

\* the bytes handed to the loader: a text pem.Decode finds no block in, or a
\* text with a block
NoBlock == [block |-> FALSE, type |-> "", der |-> ""]
PemBytes == {NoBlock} \cup {[block |-> TRUE, type |-> t, der |-> d] : t \in PemTypes, d \in Ders}

\* the key file: it can be read or not, and holds the bytes
PemFiles == {[readable |-> r, bytes |-> b] : r \in BOOLEAN, b \in PemBytes}

\* a readable file with a PKCS#1 RSA key
GoodPem == [readable |-> TRUE, bytes |-> [block |-> TRUE, type |-> RSAPKCS1, der |-> "pkcs1-rsa"]]

NoPemErr == [kind |-> "pem", msg |-> <<"invalid rsa private key for pem.Decode">>]
X509Err == [kind |-> "x509", msg |-> <<"x509: failed to parse private key">>]
FileErr == [kind |-> "file", msg |-> <<"open: no such file or directory">>]

\* x509.ParsePKCS1PrivateKey(block.Bytes), assigned to pk interface{}
ParsePKCS1PrivateKey(der) ==
  IF der = "pkcs1-rsa" THEN [pk |-> "*rsa.PrivateKey", err |-> Nil]
  ELSE [pk |-> "nil", err |-> X509Err]

\* x509.ParsePKCS8PrivateKey(block.Bytes): the key comes back under the type
\* of its algorithm
ParsePKCS8PrivateKey(der) ==
  CASE der = "pkcs8-rsa" -> [pk |-> "*rsa.PrivateKey", err |-> Nil]
    [] der = "pkcs8-ecdsa" -> [pk |-> "*ecdsa.PrivateKey", err |-> Nil]
    [] OTHER -> [pk |-> "nil", err |-> X509Err]

\* how a loader or a constructor ends: with a PrivateKey around the RSA key,
\* with an error, or in a panic of the goroutine
KeyRet(k, err) == [key |-> k, err |-> err, panics |-> FALSE]
Panic == [key |-> "none", err |-> Nil, panics |-> TRUE]
\* the loader has not run
NotLoaded == KeyRet("none", [kind |-> "pending", msg |-> <<>>])

\* NewPrivateKeyFromPemBlock(b): the switch has no default, so a block of
\* another type leaves pk and err nil; pk.(*rsa.PrivateKey) panics when the
\* dynamic type of pk is not *rsa.PrivateKey
NewPrivateKeyFromPemBlock(b) ==
  IF ~b.block THEN KeyRet("none", NoPemErr)
  ELSE LET r == CASE b.type = RSAPKCS1 -> ParsePKCS1PrivateKey(b.der)
                  [] b.type = RSAPKCS8 -> ParsePKCS8PrivateKey(b.der)
                  [] OTHER -> [pk |-> "nil", err |-> Nil]
       IN IF r.err # Nil THEN KeyRet("none", r.err)
          ELSE IF r.pk = "*rsa.PrivateKey" THEN KeyRet("*rsa.PrivateKey", Nil)
          ELSE Panic

\* NewPrivateKeyFromPemFile(pemFile): the file is read and its bytes go the
\* way of NewPrivateKeyFromPemBlock
NewPrivateKeyFromPemFile(f) ==
  IF ~f.readable THEN KeyRet("none", FileErr)
  ELSE NewPrivateKeyFromPemBlock(f.bytes)

----------------------------------------------------------------------------
(* State *)

VARIABLES
  hc,         \* client.hc, the executor the client holds: 0 is the one of the constructor,
              \* n the one the n-th SetHTTPClient put there
  pem,        \* the key file the constructor is given
  key,        \* what loading the key ended with; the PrivateKey in it is client.key
  cfg,        \* client.cfg, the *Config handed to NewClient
  pc,         \* pc[p]: where caller p stands in its call
  args,       \* args[p]: kind, method and options of p's call, and whether rsa.SignPKCS1v15 fails in it
  ctxDone,    \* ctxDone[p]: the ctx of p's call has been cancelled
  hsRet,      \* hsRet[p]: the (string, error) c.shakehand returned to p's call
  token,      \* token[p]: the local token of chainCall / chainCallForBiz
  ret,        \* ret[p]: the (string, error) p's call returned
  reqs,       \* reqs[p]: the requests p's call handed to the executor, in order
  lastBody,   \* lastBody[p]: the response body the running do of p read in full
  nCalls,     \* invocations started so far
  nHs,        \* handshake bodies the service has answered so far
  nUuid,      \* identifiers uuid.New has produced so far
  sent        \* kind, token and orderId of every business request sent so far

vars == <<hc, pem, key, cfg, pc, args, ctxDone, hsRet, token, ret, reqs, lastBody, nCalls, nHs, nUuid, sent>>

NoBody == Body(Absent, Absent, Absent)
\* shakehand has not returned yet
NoRet == Ret("", [kind |-> "pending", msg |-> <<>>])
NoArgs == [kind |-> "chainCall", method |-> "DEPOSIT", options |-> <<>>, rsaFails |-> FALSE]

\* an HTTP request as the executor sees it, and the executor do handed it to
Request(url, params) == [verb |-> "POST", url |-> url, params |-> params, via |-> hc]

\* the calls of a client that has just been made
InitCalls ==
  /\ hc = 0
  /\ cfg \in Configs
  /\ pc = [p \in Procs |-> "idle"]
  /\ args = [p \in Procs |-> NoArgs]
  /\ ctxDone = [p \in Procs |-> FALSE]
  /\ hsRet = [p \in Procs |-> NoRet]
  /\ token = [p \in Procs |-> ""]
  /\ ret = [p \in Procs |-> Ret("", Nil)]
  /\ reqs = [p \in Procs |-> <<>>]
  /\ lastBody = [p \in Procs |-> NoBody]
  /\ nCalls = 0
  /\ nHs = 0
  /\ nUuid = 0
  /\ sent = <<>>

\* the client a constructor returned for a key file that holds an RSA key
Init ==
  /\ InitCalls
  /\ pem = GoodPem
  /\ key = NewPrivateKeyFromPemFile(pem)

\* a mutation of callToken: the token is a field of the client that every
\* handshake overwrites
callTokenShared(p) == Tok(nHs)

\* a mutation of callToken: the first token obtained is kept and used again
callTokenCached(p) == IF nHs > 1 THEN Tok(1) ELSE token[p]

\* the token a call puts into its business request: its own local
callToken(p) == token[p]

----------------------------------------------------------------------------
(* Operations *)

\* p's call returns (payload, err)
Return(p, r) ==
  /\ ret' = [ret EXCEPT ![p] = r]
  /\ pc' = [pc EXCEPT ![p] = "done"]

\* token, err := c.shakehand(ctx) has returned r: chainCall / chainCallForBiz
\* returns the error or keeps the token and goes on
AfterShakehand(p, r) ==
  /\ hsRet' = [hsRet EXCEPT ![p] = r]
  /\ IF shakehandFailed(r)
     THEN /\ Return(p, Ret("", r.err))
          /\ token' = [token EXCEPT ![p] = ""]
     ELSE /\ token' = [token EXCEPT ![p] = r.payload]
          /\ pc' = [pc EXCEPT ![p] = "assemble"]
          /\ ret' = [ret EXCEPT ![p] = Ret("", Nil)]

\* chainCall / chainCallForBiz is entered and runs shakehand up to the point
\* where the handshake request is with the executor
Invoke(p, kind, in) ==
  /\ pc[p] = "idle"
  /\ nCalls < in.calls
  /\ nCalls' = nCalls + 1
  /\ \E method \in Methods, options \in in.lists, ms \in in.times, rsaFails \in BOOLEAN :
       LET timeStr == FormatInt(ms)
           s == Sign(cfg.AccessID \o timeStr, rsaFails)
           params == shakehandParams(cfg.AccessID, timeStr, s.sig)
           url == cfg.Endpoint \o SHAKE_HAND
           e == IF s.err # Nil THEN s.err ELSE doPrepare(url, params, cfg)
       IN /\ args' = [args EXCEPT ![p] = [kind |-> kind, method |-> method, options |-> options,
                                           rsaFails |-> rsaFails]]
          /\ IF e # Nil
             THEN /\ AfterShakehand(p, Ret("", e))
                  /\ reqs' = [reqs EXCEPT ![p] = <<>>]
             ELSE /\ reqs' = [reqs EXCEPT ![p] = <<Request(url, params)>>]
                  /\ pc' = [pc EXCEPT ![p] = "hs_do"]
                  /\ ret' = [ret EXCEPT ![p] = Ret("", Nil)]
                  /\ UNCHANGED <<hsRet, token>>
  /\ UNCHANGED <<hc, pem, key, cfg, ctxDone, lastBody, nHs, nUuid, sent>>

chainCall(p, in) == Invoke(p, "chainCall", in)

chainCallForBiz(p, in) == Invoke(p, "chainCallForBiz", in)

\* the caller has taken the result; the frame of the call is gone
Returned(p) ==
  /\ pc[p] = "done"
  /\ pc' = [pc EXCEPT ![p] = "idle"]
  /\ args' = [args EXCEPT ![p] = NoArgs]
  /\ ctxDone' = [ctxDone EXCEPT ![p] = FALSE]
  /\ hsRet' = [hsRet EXCEPT ![p] = NoRet]
  /\ token' = [token EXCEPT ![p] = ""]
  /\ ret' = [ret EXCEPT ![p] = Ret("", Nil)]
  /\ reqs' = [reqs EXCEPT ![p] = <<>>]
  /\ lastBody' = [lastBody EXCEPT ![p] = NoBody]
  /\ UNCHANGED <<hc, pem, key, cfg, nCalls, nHs, nUuid, sent>>

\* the caller cancels the ctx of its running call
Cancel(p) ==
  /\ pc[p] \notin {"idle", "done"}
  /\ ~ctxDone[p]
  /\ ctxDone' = [ctxDone EXCEPT ![p] = TRUE]
  /\ UNCHANGED <<hc, pem, key, cfg, pc, args, hsRet, token, ret, reqs, lastBody, nCalls, nHs, nUuid, sent>>

\* c.cli.Do(req) returns: with an error (do returns the context's error if the
\* ctx is done, else the transport's), or with a response whose body is still
\* to be read.  An executor that honours the ctx hands out no response once
\* the ctx is done.
clientDo(p) ==
  /\ pc[p] \in {"hs_do", "biz_do"}
  /\ \/ /\ \E err \in {TransportErr} :
             LET r == Ret("", doRoundTripErr(ctxDone[p], err))
             IN IF pc[p] = "hs_do"
                THEN AfterShakehand(p, r)
                ELSE Return(p, r) /\ UNCHANGED <<hsRet, token>>
     \/ /\ ~ctxDone[p]
        /\ pc' = [pc EXCEPT ![p] = IF pc[p] = "hs_do" THEN "hs_read" ELSE "biz_read"]
        /\ UNCHANGED <<hsRet, ret, token>>
  /\ UNCHANGED <<hc, pem, key, cfg, args, ctxDone, reqs, lastBody, nCalls, nHs, nUuid, sent>>

\* the errors ioutil.ReadAll(resp.Body) can end with: the transport's own,
\* and the context's once the ctx is done
ReadErrors(done) == IF done THEN {ReadErr, CtxErr} ELSE {ReadErr}

\* ioutil.ReadAll(resp.Body) returns and do runs to its end: a read error is
\* returned as it is, a body that was read in full is decoded
readBody(p, hsBodies, bodies) ==
  /\ pc[p] \in {"hs_read", "biz_read"}
  /\ \/ /\ \E err \in ReadErrors(ctxDone[p]) :
             IF pc[p] = "hs_read"
             THEN AfterShakehand(p, Ret("", err))
             ELSE Return(p, Ret("", err)) /\ UNCHANGED <<hsRet, token>>
        /\ UNCHANGED <<lastBody, nHs>>
     \/ /\ ~ctxDone[p]
        /\ pc[p] = "hs_read"
        /\ nHs' = nHs + 1
        /\ \E b \in hsBodies :
             /\ lastBody' = [lastBody EXCEPT ![p] = b]
             /\ AfterShakehand(p, doDecode(b))
     \/ /\ ~ctxDone[p]
        /\ pc[p] = "biz_read"
        /\ \E b \in bodies :
             /\ lastBody' = [lastBody EXCEPT ![p] = b]
             /\ Return(p, doDecode(b))
        /\ UNCHANGED <<hsRet, token, nHs>>
  /\ UNCHANGED <<hc, pem, key, cfg, args, ctxDone, reqs, nCalls, nUuid, sent>>

\* the business half of chainCall / chainCallForBiz: the parameter mapping is
\* built from the options and the protocol fields, and do runs up to the
\* point where the business request is with the executor
assemble(p) ==
  /\ pc[p] = "assemble"
  /\ LET isBiz == args[p].kind = "chainCallForBiz"
         orderId == Uuid(nUuid + 1)
         params == IF isBiz
                   THEN chainCallForBizParams(cfg, args[p].method, args[p].options, callToken(p), orderId)
                   ELSE chainCallParams(cfg, args[p].method, args[p].options, callToken(p))
         url == bizURL(cfg, args[p].kind)
         e == doPrepare(url, params, cfg)
     IN /\ nUuid' = IF isBiz THEN nUuid + 1 ELSE nUuid
        /\ IF e # Nil
           THEN /\ Return(p, Ret("", e))
                /\ UNCHANGED <<reqs, sent>>
           ELSE /\ reqs' = [reqs EXCEPT ![p] = Append(@, Request(url, params))]
                /\ sent' = Append(sent, [kind |-> args[p].kind, token |-> params["token"],
                                          orderId |-> IF isBiz THEN params["orderId"] ELSE ""])
                /\ pc' = [pc EXCEPT ![p] = "biz_do"]
                /\ UNCHANGED ret
  /\ lastBody' = [lastBody EXCEPT ![p] = NoBody]
  /\ UNCHANGED <<hc, pem, key, cfg, args, ctxDone, hsRet, token, nCalls, nHs>>

----------------------------------------------------------------------------
(* Specifications *)

\* what the callers of a specification draw their calls from: how many calls,
\* which option lists, which readings of the clock
Inputs(calls, lists, times) == [calls |-> calls, lists |-> lists, times |-> times]

\* one caller, one call after the other
Next ==
  \E p \in {"p1"} :
    \/ chainCall(p, Inputs(MaxCalls, OptionLists, Times))
    \/ chainCallForBiz(p, Inputs(MaxCalls, OptionLists, Times))
    \/ Cancel(p)
    \/ clientDo(p)
    \/ readBody(p, HsBodies(nHs + 1), Bodies)
    \/ assemble(p)
    \/ Returned(p)

Spec == Init /\ [][Next]_vars

\* several callers on the same client at the same time
NextConc ==
  \E p \in Procs :
    \/ chainCall(p, Inputs(MaxCallsConc, OptionListsConc, {1}))
    \/ chainCallForBiz(p, Inputs(MaxCallsConc, OptionListsConc, {1}))
    \/ Cancel(p)
    \/ clientDo(p)
    \/ readBody(p, HsBodiesConc(nHs + 1), BodiesConc)
    \/ assemble(p)
    \/ Returned(p)

SpecConc == Init /\ [][NextConc]_vars

\* one caller with the short option lists and a single call, whose goroutine keeps running and
\* whose executor answers every request it was handed, with a response or
\* with an error
NextFair ==
  \E p \in {"p1"} :
    \/ chainCall(p, Inputs(MaxCallsFair, OptionListsConc, Times))
    \/ chainCallForBiz(p, Inputs(MaxCallsFair, OptionListsConc, Times))
    \/ Cancel(p)
    \/ clientDo(p)
    \/ readBody(p, HsBodies(nHs + 1), Bodies)
    \/ assemble(p)
    \/ Returned(p)

FairSpec ==
  /\ Init /\ [][NextFair]_vars
  /\ WF_vars(clientDo("p1"))
  /\ WF_vars(readBody("p1", HsBodies(nHs + 1), Bodies))
  /\ WF_vars(assemble("p1"))

\* SetHTTPClient(cli): c.hc = NewHTTPClient(cli), a plain store to the field
\* with no lock around it, run by any goroutine at any time
SetHTTPClient ==
  /\ hc < MaxSets
  /\ hc' = hc + 1
  /\ UNCHANGED <<pem, key, cfg, pc, args, ctxDone, hsRet, token, ret, reqs, lastBody,
                 nCalls, nHs, nUuid, sent>>

\* one caller, and another goroutine that replaces the executor
NextSet ==
  \/ SetHTTPClient
  \/ \E p \in {"p1"} :
       \/ chainCall(p, Inputs(MaxCallsSet, OptionListsConc, {1}))
       \/ chainCallForBiz(p, Inputs(MaxCallsSet, OptionListsConc, {1}))
       \/ Cancel(p)
       \/ clientDo(p)
       \/ readBody(p, HsBodiesConc(nHs + 1), BodiesConc)
       \/ assemble(p)
       \/ Returned(p)

SpecSet == Init /\ [][NextSet]_vars

\* NewClientWithAccessKeyBlock(keyBlock, cfg): the key is loaded from the
\* bytes; the client is made only if that returned without an error
NewClientWithAccessKeyBlock ==
  /\ key = NotLoaded
  /\ key' = NewPrivateKeyFromPemBlock(pem.bytes)
  /\ UNCHANGED <<hc, pem, cfg, pc, args, ctxDone, hsRet, token, ret, reqs, lastBody,
                 nCalls, nHs, nUuid, sent>>

\* NewClientWithAccessKeyFile(keyFile, cfg): the same from the file
NewClientWithAccessKeyFile ==
  /\ key = NotLoaded
  /\ key' = NewPrivateKeyFromPemFile(pem)
  /\ UNCHANGED <<hc, pem, cfg, pc, args, ctxDone, hsRet, token, ret, reqs, lastBody,
                 nCalls, nHs, nUuid, sent>>

\* a constructor is about to be called with a key file and a configuration
InitKey ==
  /\ InitCalls
  /\ pem \in PemFiles
  /\ key = NotLoaded

NextKey == NewClientWithAccessKeyBlock \/ NewClientWithAccessKeyFile

SpecKey == InitKey /\ [][NextKey]_vars

----------------------------------------------------------------------------
(* Vocabulary of the properties *)

\* p's call has handed its business request to the executor
HasBiz(p) == Len(reqs[p]) = 2
HsReq(p) == reqs[p][1]
BizReq(p) == reqs[p][2]

\* the tokens the service has issued so far
IssuedTokens == {Tok(n) : n \in 1..nHs}

\* the identifiers uuid.New has produced so far
IssuedUuids == {Uuid(n) : n \in 1..nUuid}

\* the keys chainCall / chainCallForBiz set after the options have run
ProtocolKeys(kind) ==
  IF kind = "chainCall"
  THEN {"bizid", "accessId", "method", "token"}
  ELSE {"orderId", "bizid", "account", "mykmsKeyId", "method", "accessId", "tenantid", "token"}

OptionKeys(options) == {options[i][1] : i \in DOMAIN options}
OptionValues(options) == {options[i][2] : i \in DOMAIN options}

\* the value of the last option of the list that sets key k
LastValue(options, k) ==
  LET last == CHOOSE i \in DOMAIN options :
                /\ options[i][1] = k
                /\ \A j \in DOMAIN options : options[j][1] = k => j <= i
  IN options[last][2]

\* the message of err has s among its pieces
Contains(err, s) == \E i \in DOMAIN err.msg : err.msg[i] = s

----------------------------------------------------------------------------
(* Callers whose options set the keys of the protocol *)

\* WithParam(k, "caller") for every key either call shape sets itself, and
\* for a key of the caller's own
ProtocolOptions ==
  {<<k, "caller">> : k \in ProtocolKeys("chainCallForBiz")} \cup {<<"gas", "caller">>}

ProtocolOptionLists == SeqsUpTo(ProtocolOptions, MaxOptsProto)

\* one caller whose option lists are drawn from ProtocolOptions
NextOpts ==
  \E p \in {"p1"} :
    \/ chainCall(p, Inputs(MaxCallsOpts, ProtocolOptionLists, {1}))
    \/ chainCallForBiz(p, Inputs(MaxCallsOpts, ProtocolOptionLists, {1}))
    \/ Cancel(p)
    \/ clientDo(p)
    \/ readBody(p, HsBodiesConc(nHs + 1), BodiesConc)
    \/ assemble(p)
    \/ Returned(p)

SpecOpts == Init /\ [][NextOpts]_vars

----------------------------------------------------------------------------
(* C1..C4 *)

\* C1: every business request that is sent carries in its token field the
\* payload the handshake of the same invocation returned, and a token the
\* service issued is put into at most one business request of the whole run.
C1_TokenFromOwnHandshake ==
  /\ \A p \in Procs :
       HasBiz(p) => /\ hsRet[p].err = Nil
                    /\ BizReq(p).params["token"] = hsRet[p].payload
  /\ \A i, j \in DOMAIN sent :
       (i # j /\ sent[i].token \in IssuedTokens) => sent[i].token # sent[j].token

\* two invocations in a row whose business requests carry the first and the
\* second token the service issued
C1_Witness ==
  /\ Len(sent) = 2
  /\ sent[1].token = Tok(1)
  /\ sent[2].token = Tok(2)
  /\ HasBiz("p1") /\ BizReq("p1").params["token"] = Tok(2)

\* C2: when the body that do read has success=false, code C and data D, the
\* call (whose handshake or business request was answered so) returns an error
\* whose message contains C and D, and the empty string as payload.
C2_FailureEnvelope ==
  \A p \in Procs :
    (pc[p] = "done" /\ lastBody[p].success = JFalse) =>
       /\ ret[p].err.kind = "remote"
       /\ Contains(ret[p].err, gjsonString(lastBody[p].code))
       /\ Contains(ret[p].err, gjsonString(lastBody[p].data))
       /\ ret[p].payload = ""

\* a chainCallForBiz whose business request was answered
\* {"success":false,"code":"E1","data":"boom"}
C2_Witness ==
  /\ pc["p1"] = "done"
  /\ args["p1"].kind = "chainCallForBiz"
  /\ HasBiz("p1")
  /\ lastBody["p1"] = Body(JFalse, JStr("E1"), JStr("boom"))
  /\ Contains(ret["p1"].err, "E1") /\ Contains(ret["p1"].err, "boom")

\* C3: when the handshake succeeded and the business response has
\* success=true and the string D as data, the call returns (D, nil).
C3_SuccessEnvelope ==
  \A p \in Procs :
    (pc[p] = "done" /\ HasBiz(p) /\ lastBody[p].success = JTrue /\ lastBody[p].data.t = "string") =>
       ret[p] = Ret(lastBody[p].data.str, Nil)

\* a call that returned "deadbeef"
C3_Witness ==
  /\ pc["p1"] = "done"
  /\ HasBiz("p1")
  /\ lastBody["p1"] = Body(JTrue, Absent, JStr("deadbeef"))
  /\ ret["p1"] = Ret("deadbeef", Nil)

\* C4: in the business request, every key set by an option that is not a
\* protocol key of the call kind has the value of the last option of the
\* list that sets it.
C4_LastWriteWins ==
  \A p \in Procs :
    HasBiz(p) =>
      \A k \in OptionKeys(args[p].options) \ ProtocolKeys(args[p].kind) :
        /\ k \in DOMAIN BizReq(p).params
        /\ BizReq(p).params[k] = LastValue(args[p].options, k)

\* a request built from two options that set gas to different values
C4_Witness ==
  /\ HasBiz("p1")
  /\ args["p1"].options = <<(<<"gas", "v1">>), (<<"gas", "v2">>)>>
  /\ BizReq("p1").params["gas"] = "v2"

----------------------------------------------------------------------------
(* C5..C10 *)

\* C5: a call whose ctx was cancelled before a round trip (up to and
\* including the reading of the body) completed, and which that round trip
\* ended, returns the context's error and not the transport's.
C5_CancelWins ==
  \A p \in Procs :
    (pc[p] = "done" /\ ctxDone[p] /\ ret[p].err.kind \in {"transport", "read", "ctx"}) =>
       ret[p].err = CtxErr

\* C6: the orderId of every chainCallForBiz request is an identifier uuid.New
\* produced inside that call, not a value of the call's options nor its
\* method, and no two chainCallForBiz requests of the run carry the same one.
C6_FreshOrderId ==
  /\ \A p \in Procs :
       (HasBiz(p) /\ args[p].kind = "chainCallForBiz") =>
          /\ "orderId" \in DOMAIN BizReq(p).params
          /\ BizReq(p).params["orderId"] \in IssuedUuids
          /\ BizReq(p).params["orderId"] \notin OptionValues(args[p].options) \cup {args[p].method}
  /\ \A i, j \in DOMAIN sent :
       (i # j /\ sent[i].kind = "chainCallForBiz" /\ sent[j].kind = "chainCallForBiz") =>
          sent[i].orderId # sent[j].orderId

\* two chainCallForBiz calls in flight at once, one of them with an option
\* that sets orderId
C6_Witness ==
  /\ HasBiz("p1") /\ HasBiz("p2")
  /\ args["p1"].kind = "chainCallForBiz" /\ args["p2"].kind = "chainCallForBiz"
  /\ args["p1"].options = <<(<<"orderId", "v1">>)>>
  /\ BizReq("p1").params["orderId"] # "v1"
  /\ BizReq("p1").params["orderId"] # BizReq("p2").params["orderId"]

\* C7: once shakehand has returned an error, the call has sent nothing but
\* its handshake request and has returned ("", that error).
C7_HandshakeErrorPropagates ==
  \A p \in Procs :
    hsRet[p].err.kind \notin {"nil", "pending"} =>
       /\ \A i \in DOMAIN reqs[p] : reqs[p][i].url = cfg.Endpoint \o SHAKE_HAND
       /\ Len(reqs[p]) <= 1
       /\ pc[p] = "done"
       /\ ret[p] = Ret("", hsRet[p].err)

\* a call whose handshake was cancelled
C7_Witness ==
  /\ hsRet["p1"].err = CtxErr
  /\ Len(reqs["p1"]) = 1
  /\ ret["p1"] = Ret("", CtxErr)

\* C8: with callers running at once, the business request of each call holds
\* the token of the call's own handshake, the call's own method and options
\* and nothing else, two calls in flight never hold the same issued token,
\* and a call returns what its own responses determine.
C8_CallsAreIsolated ==
  /\ \A p \in Procs :
       HasBiz(p) =>
         /\ BizReq(p).params["token"] = hsRet[p].payload
         /\ BizReq(p).params["method"] = args[p].method
         /\ DOMAIN BizReq(p).params = ProtocolKeys(args[p].kind) \cup OptionKeys(args[p].options)
         /\ \A k \in OptionKeys(args[p].options) \ ProtocolKeys(args[p].kind) :
              BizReq(p).params[k] = LastValue(args[p].options, k)
  /\ \A p, q \in Procs :
       (p # q /\ HasBiz(p) /\ HasBiz(q)) =>
          BizReq(p).params["token"] # BizReq(q).params["token"]
  /\ \A p \in Procs :
       pc[p] = "done" =>
         /\ (~HasBiz(p) /\ hsRet[p] # NoRet) => ret[p] = Ret("", hsRet[p].err)
         /\ (HasBiz(p) /\ lastBody[p].success = JTrue) => ret[p] = Ret(lastBody[p].data.str, Nil)
         /\ (HasBiz(p) /\ lastBody[p].success = JFalse) =>
               ret[p] = Ret("", RemoteErr(lastBody[p].code.str, lastBody[p].data.str))

\* two calls of different kind, method and options with their business
\* requests in flight at once, the second handshake answered before the first
\* call built its request
C8_Witness ==
  /\ HasBiz("p1") /\ HasBiz("p2")
  /\ args["p1"].kind # args["p2"].kind
  /\ args["p1"].method # args["p2"].method
  /\ args["p1"].options # args["p2"].options
  /\ BizReq("p1").params["token"] = Tok(1)
  /\ BizReq("p2").params["token"] = Tok(2)
  /\ sent[1].token = Tok(2)

\* C9: the requests of a call are, in this order, at most one POST to
\* endpoint/api/contract/shakeHand and at most one POST to the endpoint of the
\* call kind; the second is sent only after the handshake was decoded as
\* successful; a call that is past its handshake POST has sent exactly one,
\* and a call that succeeded has sent exactly the two.
C9_RequestOrder ==
  \A p \in Procs :
    /\ Len(reqs[p]) <= 2
    /\ Len(reqs[p]) >= 1 =>
         /\ HsReq(p).verb = "POST"
         /\ HsReq(p).url = cfg.Endpoint \o "/api/contract/shakeHand"
    /\ HasBiz(p) =>
         /\ hsRet[p].err = Nil
         /\ BizReq(p).verb = "POST"
         /\ BizReq(p).url = cfg.Endpoint \o
              (IF args[p].kind = "chainCall" THEN "/api/contract/chainCall"
               ELSE "/api/contract/chainCallForBiz")
    /\ pc[p] \in {"hs_do", "hs_read", "assemble"} => Len(reqs[p]) = 1
    /\ pc[p] \in {"biz_do", "biz_read"} => Len(reqs[p]) = 2
    /\ hsRet[p].err # Nil => Len(reqs[p]) <= 1
    /\ (pc[p] = "done" /\ ret[p].err = Nil) => Len(reqs[p]) = 2

\* a chainCallForBiz that succeeded after its two requests
C9_Witness ==
  /\ pc["p1"] = "done"
  /\ args["p1"].kind = "chainCallForBiz"
  /\ ret["p1"].err = Nil
  /\ Len(reqs["p1"]) = 2
  /\ BizReq("p1").url = cfg.Endpoint \o CHAIN_CALL_FOR_BIZ

\* what shakehand and the call have returned is (payload, nil) or ("", err)
NoPartialSuccess ==
  \A p \in Procs :
    /\ ret[p].err = Nil \/ ret[p].payload = ""
    /\ hsRet[p].err = Nil \/ hsRet[p].payload = ""
    /\ pc[p] = "done" => ret[p].err.kind # "pending"

----------------------------------------------------------------------------
(* C11..C17 *)

\* C11: the parameter mapping of every handshake request has the keys
\* accessId, time and secret and no other; accessId is the configured access
\* id, time is the decimal string of one reading of the clock, and secret is
\* the hex encoding of the signature over the access id followed, with
\* nothing in between, by that same string.
C11_HandshakeParams ==
  \A p \in Procs :
    Len(reqs[p]) >= 1 =>
      LET x == HsReq(p).params
      IN /\ DOMAIN x = {"accessId", "time", "secret"}
         /\ x["accessId"] = cfg.AccessID
         /\ \E ms \in Times :
              /\ x["time"] = ToString(ms)
              /\ x["secret"] = "hex(rsa-sha256(" \o cfg.AccessID \o ToString(ms) \o "))"

\* a handshake request that went out when the clock read 2
C11_Witness ==
  /\ Len(reqs["p1"]) >= 1
  /\ HsReq("p1").url = cfg.Endpoint \o SHAKE_HAND
  /\ HsReq("p1").params["time"] = "2"
  /\ HsReq("p1").params["secret"] = "hex(rsa-sha256(access2))"

\* C12: a call in which Signer.Sign fails hands no request to the executor,
\* neither the handshake's nor a business one, and returns the empty payload
\* with the signing error.
C12_SignFailureSendsNothing ==
  \A p \in Procs :
    (pc[p] # "idle" /\ args[p].rsaFails) =>
      /\ reqs[p] = <<>>
      /\ pc[p] = "done"
      /\ hsRet[p] = Ret("", SignErr)
      /\ ret[p] = Ret("", SignErr)

\* a chainCallForBiz whose signing failed, after an earlier call of the same
\* client got its business request out
C12_Witness ==
  /\ pc["p1"] = "done"
  /\ args["p1"].rsaFails
  /\ args["p1"].kind = "chainCallForBiz"
  /\ ret["p1"].err = SignErr
  /\ Len(sent) = 1

\* C13: in every business request the fields the protocol sets hold the
\* protocol's values, whatever the caller's options set for those keys:
\* bizid, accessId, method and token in a chainCall request, and orderId,
\* account, mykmsKeyId and tenantid besides in a chainCallForBiz request;
\* every other key of the caller is in the request with the caller's value,
\* and the request has no key that is in neither set.
C13_ProtocolFieldsWin ==
  \A p \in Procs :
    HasBiz(p) =>
      LET x == BizReq(p).params
          a == args[p]
      IN /\ DOMAIN x = ProtocolKeys(a.kind) \cup OptionKeys(a.options)
         /\ x["bizid"] = cfg.BizID
         /\ x["accessId"] = cfg.AccessID
         /\ x["method"] = a.method
         /\ x["token"] = hsRet[p].payload
         /\ a.kind = "chainCallForBiz" =>
              /\ x["orderId"] \in IssuedUuids
              /\ x["account"] = cfg.Account
              /\ x["mykmsKeyId"] = cfg.MyKmsKeyID
              /\ x["tenantid"] = cfg.TenantID
         /\ \A k \in OptionKeys(a.options) \ ProtocolKeys(a.kind) :
              x[k] = LastValue(a.options, k)

\* a chainCall whose options set token and gas went out with the handshake's
\* token and the caller's gas
C13_Witness ==
  /\ HasBiz("p1")
  /\ args["p1"].kind = "chainCall"
  /\ args["p1"].options = <<(<<"token", "caller">>), (<<"gas", "caller">>)>>
  /\ BizReq("p1").params["token"] = Tok(1)
  /\ BizReq("p1").params["gas"] = "caller"

\* the body is a JSON envelope whose success field is there and is true
Accepted(b) == b.valid /\ b.success = JTrue

\* C14: a response body makes a round trip succeed only if it is a JSON
\* envelope whose success field is present and true: a handshake goes on to
\* the business half only after such a body, so that after any other body no
\* token is held and no business request is sent, and a call returns without
\* an error only after such a body answered its business request.
C14_OnlyTrueSucceeds ==
  \A p \in Procs :
    /\ pc[p] = "assemble" => Accepted(lastBody[p])
    /\ (pc[p] = "done" /\ ret[p].err = Nil) => Accepted(lastBody[p])

\* C15: the executor field of the client is not written while a call is in
\* flight: as long as a call runs the field holds the executor the call's
\* handshake went through, and the handshake request and the business request
\* of one call go through the same executor.
C15_ExecutorFixedDuringCall ==
  \A p \in Procs :
    /\ pc[p] \notin {"idle", "done"} => hc = HsReq(p).via
    /\ \A i \in DOMAIN reqs[p] : reqs[p][i].via = HsReq(p).via

\* the request carries the identifiers of configuration c: its URL starts
\* from c's endpoint, and the identifier fields it has are c's
CarriesConfig(r, c) ==
  /\ r.url \in {c.Endpoint \o SHAKE_HAND, c.Endpoint \o CHAIN_CALL, c.Endpoint \o CHAIN_CALL_FOR_BIZ}
  /\ r.params["accessId"] = c.AccessID
  /\ r.url # c.Endpoint \o SHAKE_HAND => r.params["bizid"] = c.BizID
  /\ r.url = c.Endpoint \o CHAIN_CALL_FOR_BIZ =>
       /\ r.params["account"] = c.Account
       /\ r.params["mykmsKeyId"] = c.MyKmsKeyID
       /\ r.params["tenantid"] = c.TenantID

\* C16: no step of a call, whether the call succeeds, fails or is cancelled,
\* changes the configuration or the signer's key; every request a step hands
\* to the executor carries the identifiers the configuration had before the
\* step, and so the ones it had at construction; the handshake request and
\* the business request of one call carry the same accessId.
C16_ConfigReadOnly ==
  [][ /\ cfg' = cfg
      /\ key' = key
      /\ \A p \in Procs :
           /\ \A i \in DOMAIN reqs'[p] : CarriesConfig(reqs'[p][i], cfg)
           /\ Len(reqs'[p]) = 2 =>
                reqs'[p][1].params["accessId"] = reqs'[p][2].params["accessId"] ]_vars

\* a cancelled chainCallForBiz whose two requests went out, after an earlier
\* call of the client failed
C16_Witness ==
  /\ HasBiz("p1")
  /\ args["p1"].kind = "chainCallForBiz"
  /\ ctxDone["p1"]
  /\ nCalls = 2
  /\ sent = <<[kind |-> "chainCallForBiz", token |-> Tok(1), orderId |-> Uuid(1)]>>
  /\ BizReq("p1").params["accessId"] = "access"
  /\ key = KeyRet("*rsa.PrivateKey", Nil)

\* C17: loading a key ends, for every input, either with a PrivateKey that
\* holds an RSA key and no error, or with an error and no key; it never ends
\* in a panic, whatever the type of the PEM block and whatever key a PKCS#8
\* block holds.
C17_KeyOrError ==
  key # NotLoaded =>
    /\ ~key.panics
    /\ \/ key.err = Nil /\ key.key = "*rsa.PrivateKey"
       \/ key.err # Nil /\ key.key = "none"

====
